---- MODULE Spec2Model ----
(***************************************************************************)
(* The retrieval-augmented answer pipeline of the medical chatbot          *)
(* (src/server.py and its less defensive twin src/shri1.py): the /chat     *)
(* handler, search_query_only, query_gemini, the translation step and the  *)
(* chat_history insert.                                                    *)
(*                                                                         *)
(* Strings are sequences of one-character strings; a fixed literal of the  *)
(* source (a message, a prompt template) is one element of the sequence.   *)
(* Python's None is the one-element sequence None, whose element is no     *)
(* character of any text.  Scores are hundredths (0.75 is 75).             *)
(***************************************************************************)
EXTENDS Integers, Sequences, FiniteSets, TLC

VARIABLES variant, model, index, translator, GEMINI_API_KEY,
          last_disease_query, chat_history, req, acceptedTop, acceptedFor,
          failedWith,
          users, session, reply, reg, lastAuth

vars == <<variant, model, index, translator, GEMINI_API_KEY,
          last_disease_query, chat_history, req, acceptedTop, acceptedFor,
          failedWith,
          users, session, reply, reg, lastAuth>>

config == <<variant, model, index, translator, GEMINI_API_KEY>>

\* the state of the account routes: the users table, the session of each
\* browser, the response to the latest request of a browser, the register
\* requests in flight, and (history) the latest login or logout of each
\* browser
accounts == <<users, session, reply, reg, lastAuth>>

\* the state of the answer pipeline, chat_history apart
pipeline == <<config, last_disease_query, req, acceptedTop, acceptedFor, failedWith>>

-----------------------------------------------------------------------------
(* Bounds of the model *)

\* longest list of matches one index query answers with (the code asks for top_k)
MaxMatches == 2

\* rows chat_history may hold before a clear_history is needed
MaxHistory == 1

\* number of request slots (worker threads) of the server
NSlots == 2

(* Program constants *)
threshold == 75
top_k == 5

Slots == 1..NSlots

-----------------------------------------------------------------------------
(* Python values and string methods *)

None == <<"<None>">>

\* Python truthiness of an optional string: neither None nor ""
Truthy(s) == s # None /\ s # <<>>

IsSpace(c) == c = " "

LowerChar(c) ==
    CASE c = "A" -> "a"
      [] c = "B" -> "b"
      [] OTHER  -> c

\* str.lower()
Lower(s) == [i \in 1..Len(s) |-> LowerChar(s[i])]

\* str.replace("?", "")
RemoveQ(s) == SelectSeq(s, LAMBDA c : c # "?")

RECURSIVE LStrip(_)
LStrip(s) == IF s # <<>> /\ IsSpace(Head(s)) THEN LStrip(Tail(s)) ELSE s

RECURSIVE RStrip(_)
RStrip(s) ==
    IF s # <<>> /\ IsSpace(s[Len(s)]) THEN RStrip(SubSeq(s, 1, Len(s) - 1)) ELSE s

\* str.strip()
Strip(s) == RStrip(LStrip(s))

\* str.split(): the maximal runs of non-whitespace characters, in order
RECURSIVE SplitFrom(_, _, _)
SplitFrom(s, word, acc) ==
    IF s = <<>>
    THEN IF word = <<>> THEN acc ELSE Append(acc, word)
    ELSE IF IsSpace(Head(s))
         THEN SplitFrom(Tail(s), <<>>, IF word = <<>> THEN acc ELSE Append(acc, word))
         ELSE SplitFrom(Tail(s), Append(word, Head(s)), acc)

Split(s) == SplitFrom(s, <<>>, <<>>)

\* needle in hay (substring test)
Contains(hay, needle) ==
    \E i \in 0..(Len(hay) - Len(needle)) : SubSeq(hay, i + 1, i + Len(needle)) = needle

-----------------------------------------------------------------------------
(* Literals of the source *)

LoginMsg == <<"! Please login first.">>
ValidationMsgServer == <<"! Please enter a valid question.">>
ValidationMsgShri == <<"x Please enter a valid question.">>
InternalErrorMsg == <<"! An internal error occurred. Please try again.">>
WithPassageInstr ==
    <<"\n\nUsing the above text, answer this question within 200 words maximum:\n\n">>
NoPassageInstr ==
    <<"Answer this medical question in simple terms, within 200 words maximum:\n\n">>
SafeDisclaimer ==
    <<"I can provide general medical information based on common knowledge. If this is urgent or serious, please consult a medical professional immediately. ">>
YouAsked == <<"You asked: ">>
ReferencedNote == <<"\n\n(Referenced content summary applied.)">>
UnableMsg == <<"! Unable to get answer from Gemini.">>
TranslationFailedServer == <<" ! Translation failed.">>
TranslationFailedShri == <<"\n\n! Translation failed. Showing English answer.">>

ValidationMsg == IF variant = "server" THEN ValidationMsgServer ELSE ValidationMsgShri
TranslationFailed ==
    IF variant = "server" THEN TranslationFailedServer ELSE TranslationFailedShri

-----------------------------------------------------------------------------
(* Inputs: the requests a client can send and the answers of the remote   *)
(* services                                                                *)

NoSession == "<no session>"
Users == {"alice"}

\* the "query" field of the request body, as sent
Questions ==
    { <<>>, <<" ">>, <<"?">>, <<"A", "?">>, <<" ", "a", " ", "b">> }

\* the "language" field of the request body
Languages == {"en", "hi"}

\* one match of an index response: a score (absent in NoScoreMatch) and the
\* metadata text (the metadata is absent in NoMetaMatch)
Match(score, text) == [hasScore |-> TRUE, score |-> score, hasMeta |-> TRUE, text |-> text]
NoMetaMatch == [hasScore |-> TRUE, score |-> 90, hasMeta |-> FALSE, text |-> None]
NoScoreMatch == [hasScore |-> FALSE, score |-> 0, hasMeta |-> TRUE, text |-> <<"A">>]

Matches ==
    { Match(90, <<"A">>), Match(90, <<" ", "A">>), Match(75, <<"b">>),
      Match(74, <<"A">>), Match(90, <<"x">>), Match(75, <<>>),
      NoMetaMatch, NoScoreMatch }

\* match.get("score", 0)
MatchScore(m) == IF m.hasScore THEN m.score ELSE 0

Min(a, b) == IF a <= b THEN a ELSE b

\* the index answers with at most top_k matches, best score first
IndexResponses ==
    { ms \in UNION { [1..n -> Matches] : n \in 0..Min(MaxMatches, top_k) } :
        \A i \in 1..(Len(ms) - 1) : MatchScore(ms[i]) >= MatchScore(ms[i + 1]) }

\* candidates[0].content.parts[0].text of a successful generation response
GenTexts == { <<"T">> }

\* ways the generation call fails: requests raises, raise_for_status raises,
\* the body is no JSON or lacks candidates[0].content.parts[0].text
GenFailures == {"network", "timeout", "http_status", "schema"}

\* translator.translate(text, dest).text of a successful translation
Translated(text, dest) == <<"[" \o dest \o "]">> \o text

-----------------------------------------------------------------------------
(* search_query_only *)

\* disease_keywords = query.lower().replace("?", "").split()
Keywords(query) == Split(RemoveQ(Lower(query)))

\* any(word in para.lower() for word in disease_keywords)
AnyKeyword(para, kws) == \E k \in 1..Len(kws) : Contains(Lower(para), kws[k])

\* ParaServer that also lowers the text
ParaLowered(m) == IF m.hasMeta THEN Lower(Strip(m.text)) ELSE <<>>

\* ParaServer that trims the end of the text only
ParaRightTrimmed(m) == IF m.hasMeta THEN RStrip(m.text) ELSE <<>>

\* ParaServer without the strip()
ParaUntrimmed(m) == IF m.hasMeta THEN m.text ELSE <<>>

\* match.get("metadata", {}).get("text", "").strip()
ParaServer(m) == IF m.hasMeta THEN Strip(m.text) ELSE <<>>

\* SkipCandidate without the comparison with the previous text
SkipEmptyOnly(para, previous_text) == para = <<>>

\* if not para or para == previous_text: continue
SkipCandidate(para, previous_text) == para = <<>> \/ para = previous_text

\* AcceptCandidate without the score test
AcceptKeywordOnly(score, para, kws) == AnyKeyword(para, kws)

\* AcceptCandidate without the keyword test
AcceptScoreOnly(score, para, kws) == score >= threshold

\* if score >= threshold and any(word in para.lower() for word in disease_keywords)
AcceptCandidate(score, para, kws) == score >= threshold /\ AnyKeyword(para, kws)

\* the for loop of server.py from match i on: the accepted paragraph, or None
RECURSIVE ScanServer(_, _, _, _)
ScanServer(ms, i, kws, previous_text) ==
    IF i > Len(ms) THEN None
    ELSE LET para == ParaServer(ms[i])
         IN  IF SkipCandidate(para, previous_text)
             THEN ScanServer(ms, i + 1, kws, previous_text)
             ELSE IF AcceptCandidate(MatchScore(ms[i]), para, kws)
                  THEN para
                  ELSE ScanServer(ms, i + 1, kws, previous_text)

\* match["metadata"] of shri1.py raises KeyError when the metadata is absent
KeyError == <<"<KeyError>">>

\* the for loop of shri1.py from match i on: the accepted paragraph, None,
\* or KeyError
RECURSIVE ScanShri(_, _, _, _)
ScanShri(ms, i, kws, previous_text) ==
    IF i > Len(ms) THEN None
    ELSE IF ~ms[i].hasMeta THEN KeyError
    ELSE LET para == Strip(ms[i].text)
         IN  IF SkipCandidate(para, previous_text)
             THEN ScanShri(ms, i + 1, kws, previous_text)
             ELSE IF AcceptCandidate(MatchScore(ms[i]), para, kws)
                  THEN para
                  ELSE ScanShri(ms, i + 1, kws, previous_text)

-----------------------------------------------------------------------------
(* query_gemini *)

\* Prompt that drops the passage
PromptWithoutPassage(paragraph, question) == NoPassageInstr \o question

\* the prompt sent to the generation service
Prompt(paragraph, question) ==
    IF Truthy(paragraph)
    THEN paragraph \o WithPassageInstr \o question
    ELSE NoPassageInstr \o question

\* the fallback answer of server.py
SafeAnswer(paragraph, question) ==
    SafeDisclaimer \o YouAsked \o question
        \o (IF Truthy(paragraph) THEN ReferencedNote ELSE <<>>)

\* what query_gemini returns when the call was not made or failed
Fallback(paragraph, question) ==
    IF variant = "server" THEN SafeAnswer(paragraph, question) ELSE UnableMsg

-----------------------------------------------------------------------------
(* The state of one request slot *)

IdleReq ==
    [ pc |-> "idle", user |-> NoSession, body |-> <<>>, query |-> <<>>, lang |-> "en",
      matches |-> <<>>, previous_text |-> None, para |-> None,
      prompt |-> None, raw |-> None, answer |-> None,
      \* the calls made for this request: encoder, index, generation service,
      \* translation service, chat_history insert
      enc |-> 0, idx |-> 0, gen |-> 0, tr |-> 0, db |-> 0,
      \* what happened to this request (history, read by no action):
      \* last_disease_query["text"], acceptedFor and failedWith when
      \* search_query_only was entered, the top match of the index's answer if the call before
      \* accepted that same match (acceptedTop), the outcome of retrieval,
      \* generation and translation, the text the generation service answered
      textAtStart |-> None, forAtStart |-> NoSession, failedAtStart |-> None,
      prevTop |-> {},
      retrieval |-> "none", genOutcome |-> "none", genText |-> None,
      trOutcome |-> "none" ]

InFlight == { s \in Slots : req[s].pc # "idle" }

-----------------------------------------------------------------------------
(* The account routes: their inputs and the users table *)

\* the browsers that send requests, each with a session cookie of its own
Browsers == {"b1", "b2"}


\* werkzeug's generate_password_hash: the stored text is no password a form
\* can send
generate_password_hash(password) == "hash of " \o password

\* werkzeug's check_password_hash
check_password_hash(hash, password) == hash = generate_password_hash(password)

\* one row of the users table (the rows in the order of their id)
UserRow(username, email, password) ==
    [username |-> username, email |-> email, password |-> password]

\* SELECT ... FROM users WHERE username=%s
UsersNamed(username) ==
    { i \in 1..Len(users) : users[i].username = username }

\* SELECT id FROM users WHERE username=%s OR email=%s
UsersNamedOrMailed(username, email) ==
    { i \in 1..Len(users) : users[i].username = username \/ users[i].email = email }

\* a register request that is not being served
IdleReg ==
    [pc |-> "idle", username |-> "", email |-> "", password |-> "", reply |-> "none",
     \* history: the INSERT of this request was refused by a UNIQUE constraint
     duplicate |-> FALSE]

\* a request of browser b to a route, with the form fields it sent, and the
\* response it got
Exchange(b, route, form, page) ==
    [to |-> b, route |-> route, form |-> form, page |-> page]

NoReply == Exchange("none", "none", <<>>, "none")

\* no session, no response yet, no register request in flight
AccountsAtStart ==
    /\ session = [b \in Browsers |-> NoSession]
    /\ reply = NoReply
    /\ reg = [s \in Slots |-> IdleReg]
    /\ lastAuth = [b \in Browsers |-> NoReply]

-----------------------------------------------------------------------------
(* Init: the process after its module-level code ran *)

Init ==
    /\ variant \in {"server", "shri1"}
    \* server.py 67-93: each optional service may be missing; shri1.py 24-27
    \* builds them unconditionally
    /\ model \in BOOLEAN
    /\ index \in BOOLEAN
    /\ translator \in BOOLEAN
    /\ GEMINI_API_KEY \in BOOLEAN
    \* (its request carries whatever key there is: a missing key shows as a
    \* failed call)
    /\ variant = "shri1" => model /\ index /\ translator /\ GEMINI_API_KEY
    /\ last_disease_query = [text |-> None, name |-> None]
    /\ chat_history = <<>>
    /\ req = [s \in Slots |-> IdleReq]
    \* history: the top match of the latest search_query_only call, if that
    \* call accepted it (a set of at most one match); the next call takes it
    \* over into prevTop when the index answers
    /\ acceptedTop = {}
    \* history: the session user of the request that made the latest update
    \* of last_disease_query
    /\ acceptedFor = NoSession
    \* history: the passage the latest answered request had accepted, if its
    \* generation or its translation failed afterwards (None otherwise);
    \* noted by RespondNoting only
    /\ failedWith = None
    \* the account routes: a fresh database, no session, no request yet.
    \* (chat takes the session user of its request as an input, SessionUsers)
    /\ AccountsAtStart
    /\ users = <<>>

-----------------------------------------------------------------------------
(* chat: one step per remote call *)

\* a request is handed to the first free slot
FirstFree(r) == \A s \in Slots : s < r => req[s].pc # "idle"

\* session.get("username") of the request; shri1.py's chat reads no session
SessionUsers == IF variant = "server" THEN Users \cup {NoSession} ELSE {NoSession}

\* ChatRequest without the session check
ChatRequestWithoutLogin(r, user, body, lang) ==
    LET query == IF variant = "server" THEN Strip(body) ELSE body
        base  == [IdleReq EXCEPT !.user = user, !.body = body, !.lang = lang]
    IN  /\ req[r].pc = "idle"
        /\ FirstFree(r)
        /\ req' = [req EXCEPT ![r] =
               IF query = <<>>
               THEN [base EXCEPT !.pc = "respond", !.query = query,
                                 !.answer = ValidationMsg]
               ELSE [base EXCEPT !.pc = "encode", !.query = query]]
        /\ UNCHANGED <<config, last_disease_query, chat_history, acceptedTop, acceptedFor, failedWith, accounts>>

\* server.py 755-761, shri1.py 359-364: session check, body, validation of
\* one request
ChatRequest(r, user, body, lang) ==
    LET query == IF variant = "server" THEN Strip(body) ELSE body
        base  == [IdleReq EXCEPT !.user = user, !.body = body, !.lang = lang]
    IN  /\ req[r].pc = "idle"
        /\ FirstFree(r)
        /\ req' = [req EXCEPT ![r] =
               IF variant = "server" /\ user = NoSession
               THEN [base EXCEPT !.pc = "respond", !.answer = LoginMsg]
               ELSE IF query = <<>>
               THEN [base EXCEPT !.pc = "respond", !.query = query,
                                 !.answer = ValidationMsg]
               ELSE [base EXCEPT !.pc = "encode", !.query = query]]
        /\ UNCHANGED <<config, last_disease_query, chat_history, acceptedTop, acceptedFor, failedWith, accounts>>

\* a request arrives while chat_history has room for the row of every
\* request in flight
ChatStart(r) ==
    /\ variant = "server" => Len(chat_history) + Cardinality(InFlight) < MaxHistory
    /\ \E user \in SessionUsers, body \in Questions, lang \in Languages :
         ChatRequest(r, user, body, lang)

\* SearchRaised with the exception not caught: it leaves chat
SearchEscapes(rq) == [rq EXCEPT !.pc = "raised", !.retrieval = "failed"]

\* an exception that leaves search_query_only: server.py 570-572 turns it
\* into None, in shri1.py it reaches the except of chat (380-382)
SearchRaised(rq) ==
    IF variant = "server"
    THEN [rq EXCEPT !.pc = "generate", !.para = None, !.retrieval = "failed"]
    ELSE [rq EXCEPT !.pc = "respond", !.answer = InternalErrorMsg,
                    !.retrieval = "failed"]

\* server.py 552-555, shri1.py 271: model.encode(query)
Encode(r) ==
    /\ req[r].pc = "encode"
    /\ IF variant = "server" /\ (~model \/ ~index)
       THEN req' = [req EXCEPT ![r] =
                [@ EXCEPT !.pc = "generate", !.para = None, !.retrieval = "unavailable",
                          !.textAtStart = last_disease_query.text,
                          !.forAtStart = acceptedFor,
                          !.failedAtStart = failedWith]]
       ELSE \E ok \in BOOLEAN :
              LET called == [req[r] EXCEPT !.enc = @ + 1,
                                           !.textAtStart = last_disease_query.text,
                                           !.forAtStart = acceptedFor,
                                           !.failedAtStart = failedWith]
              IN  req' = [req EXCEPT ![r] =
                      IF ok THEN [called EXCEPT !.pc = "query"] ELSE SearchRaised(called)]
    /\ acceptedTop' = IF req'[r].pc = "query" THEN acceptedTop ELSE {}
    /\ UNCHANGED <<config, last_disease_query, chat_history, acceptedFor, failedWith, accounts>>

\* PreviousText kept per user: the last text counts for the user it was
\* accepted for
PreviousTextOfSameUser(rq) ==
    IF acceptedFor = rq.user THEN last_disease_query.text ELSE None

\* server.py 560, shri1.py 276: previous_text = last_disease_query["text"],
\* read by the call that serves request rq
PreviousText(rq) == last_disease_query.text

\* server.py 556-560, shri1.py 272-276: index.query, the empty answer, and
\* the read of last_disease_query["text"]
Query(r) ==
    /\ req[r].pc = "query"
    /\ \E ok \in BOOLEAN, ms \in IndexResponses :
         LET called == [req[r] EXCEPT !.idx = @ + 1]
         IN  req' = [req EXCEPT ![r] =
                 IF ~ok THEN SearchRaised(called)
                 ELSE IF ms = <<>>
                 THEN [called EXCEPT !.pc = "generate", !.para = None,
                                     !.retrieval = "empty"]
                 ELSE [called EXCEPT !.pc = "scan", !.matches = ms,
                                     !.previous_text = PreviousText(req[r]),
                                     !.prevTop = acceptedTop \cap {ms[1]}]]
    /\ acceptedTop' = {}
    /\ UNCHANGED <<config, last_disease_query, chat_history, acceptedFor, failedWith, accounts>>

\* the result of the for loop over the matches
ScanResult(rq) ==
    IF variant = "server"
    THEN ScanServer(rq.matches, 1, Keywords(rq.query), rq.previous_text)
    ELSE ScanShri(rq.matches, 1, Keywords(rq.query), rq.previous_text)

\* server.py 561-569, shri1.py 277-285: the loop, the update of
\* last_disease_query on acceptance, the return
Scan(r) ==
    /\ req[r].pc = "scan"
    /\ LET res == ScanResult(req[r])
           top == req[r].matches[1]
       IN  IF res = KeyError
           THEN /\ req' = [req EXCEPT ![r] = SearchRaised(@)]
                /\ acceptedTop' = {}
                /\ UNCHANGED <<last_disease_query, acceptedFor>>
           ELSE IF res = None
           THEN /\ req' = [req EXCEPT ![r] =
                       [@ EXCEPT !.pc = "generate", !.para = None, !.retrieval = "nothing"]]
                /\ acceptedTop' = {}
                /\ UNCHANGED <<last_disease_query, acceptedFor>>
           ELSE /\ req' = [req EXCEPT ![r] =
                       [@ EXCEPT !.pc = "generate", !.para = res, !.retrieval = "accepted"]]
                /\ acceptedTop' =
                       IF ScanResult([req[r] EXCEPT !.matches = <<top>>]) = res
                       THEN {top} ELSE {}
                /\ last_disease_query' = [text |-> res, name |-> req[r].query]
                /\ acceptedFor' = req[r].user
    /\ UNCHANGED <<config, chat_history, failedWith, accounts>>

\* GenSuccess with the text cut by one character
GenTruncated(text) == SubSeq(text, 1, Len(text) - 1)

\* server.py 589, shri1.py 297: return data["candidates"][0]["content"]["parts"][0]["text"]
GenSuccess(text) == text

\* Generate that calls the service whether or not there is a key
GenerateWithoutKeyTest(r) ==
    /\ req[r].pc = "generate"
    /\ LET rq        == req[r]
           paragraph == IF Truthy(rq.para) THEN rq.para ELSE None
           prompted  == [rq EXCEPT !.pc = "translate", !.matches = <<>>,
                                   !.prompt = Prompt(paragraph, rq.query)]
       IN  \/ \E text \in GenTexts :
                req' = [req EXCEPT ![r] =
                    [prompted EXCEPT !.gen = @ + 1, !.genOutcome = "ok",
                                     !.genText = text,
                                     !.raw = GenSuccess(text)]]
           \/ \E failure \in GenFailures :
                req' = [req EXCEPT ![r] =
                    [prompted EXCEPT !.gen = @ + 1, !.genOutcome = failure,
                                     !.raw = Fallback(paragraph, rq.query)]]
    /\ UNCHANGED <<config, last_disease_query, chat_history, acceptedTop, acceptedFor, failedWith, accounts>>

\* Generate that tries a second time after a failed attempt
GenerateRetrying(r) ==
    /\ req[r].pc = "generate"
    /\ LET rq        == req[r]
           paragraph == IF Truthy(rq.para) THEN rq.para ELSE None
           prompted  == [rq EXCEPT !.pc = "translate", !.matches = <<>>,
                                   !.prompt = Prompt(paragraph, rq.query)]
       IN  IF variant = "server" /\ ~GEMINI_API_KEY
           THEN req' = [req EXCEPT ![r] =
                    [prompted EXCEPT !.genOutcome = "nokey",
                                     !.raw = Fallback(paragraph, rq.query)]]
           ELSE \/ \E text \in GenTexts :
                     req' = [req EXCEPT ![r] =
                         [prompted EXCEPT !.gen = @ + 1, !.genOutcome = "ok",
                                          !.genText = text,
                                          !.raw = GenSuccess(text)]]
                \/ \E failure \in GenFailures :
                     req' = [req EXCEPT ![r] =
                         [prompted EXCEPT !.gen = @ + 2, !.genOutcome = failure,
                                          !.raw = Fallback(paragraph, rq.query)]]
    /\ UNCHANGED <<config, last_disease_query, chat_history, acceptedTop, acceptedFor, failedWith, accounts>>

\* server.py 769 and 574-600, shri1.py 370 and 287-299: query_gemini
Generate(r) ==
    /\ req[r].pc = "generate"
    /\ LET rq        == req[r]
           paragraph == IF Truthy(rq.para) THEN rq.para ELSE None
           prompted  == [rq EXCEPT !.pc = "translate", !.matches = <<>>,
                                   !.prompt = Prompt(paragraph, rq.query)]
       IN  IF variant = "server" /\ ~GEMINI_API_KEY
           THEN req' = [req EXCEPT ![r] =
                    [prompted EXCEPT !.genOutcome = "nokey",
                                     !.raw = Fallback(paragraph, rq.query)]]
           ELSE \/ \E text \in GenTexts :
                     req' = [req EXCEPT ![r] =
                         [prompted EXCEPT !.gen = @ + 1, !.genOutcome = "ok",
                                          !.genText = text,
                                          !.raw = GenSuccess(text)]]
                \/ \E failure \in GenFailures :
                     req' = [req EXCEPT ![r] =
                         [prompted EXCEPT !.gen = @ + 1, !.genOutcome = failure,
                                          !.raw = Fallback(paragraph, rq.query)]]
    /\ UNCHANGED <<config, last_disease_query, chat_history, acceptedTop, acceptedFor, failedWith, accounts>>

\* WantsTranslation without the tests of "en" and of the translator
WantsTranslationAlways(lang) == lang # ""

\* server.py 772: if target_lang and target_lang != "en" and translator;
\* shri1.py 373: if target_lang != "en"
WantsTranslation(lang) ==
    IF variant = "server"
    THEN lang # "" /\ lang # "en" /\ translator
    ELSE lang # "en"

\* TranslationExcept that drops the answer
TranslationExceptOnlyWarning(answer) == TranslationFailed

\* server.py 776-778, shri1.py 376-377: the except branch of the translation
TranslationExcept(answer) == answer \o TranslationFailed

\* Translate that forgets the last passage when the translation fails
TranslateForgetting(r) ==
    /\ req[r].pc = "translate"
    /\ LET rq   == req[r]
           next == IF variant = "server" THEN "save" ELSE "respond"
       IN  IF ~WantsTranslation(rq.lang)
           THEN /\ req' = [req EXCEPT ![r] =
                       [rq EXCEPT !.pc = next, !.answer = rq.raw, !.trOutcome = "skipped"]]
                /\ UNCHANGED last_disease_query
           ELSE \E ok \in BOOLEAN :
                  /\ req' = [req EXCEPT ![r] =
                         [rq EXCEPT !.pc = next, !.tr = @ + 1,
                                    !.trOutcome = IF ok THEN "ok" ELSE "failed",
                                    !.answer = IF ok THEN Translated(rq.raw, rq.lang)
                                               ELSE TranslationExcept(rq.raw)]]
                  /\ last_disease_query' =
                         IF ok THEN last_disease_query ELSE [text |-> None, name |-> None]
    /\ UNCHANGED <<config, chat_history, acceptedTop, acceptedFor, failedWith, accounts>>

\* server.py 771-778, shri1.py 372-377: the translation step
Translate(r) ==
    /\ req[r].pc = "translate"
    /\ LET rq   == req[r]
           next == IF variant = "server" THEN "save" ELSE "respond"
       IN  IF ~WantsTranslation(rq.lang)
           THEN req' = [req EXCEPT ![r] =
                    [rq EXCEPT !.pc = next, !.answer = rq.raw, !.trOutcome = "skipped"]]
           ELSE \E ok \in BOOLEAN :
                  req' = [req EXCEPT ![r] =
                      [rq EXCEPT !.pc = next, !.tr = @ + 1,
                                 !.trOutcome = IF ok THEN "ok" ELSE "failed",
                                 !.answer = IF ok THEN Translated(rq.raw, rq.lang)
                                            ELSE TranslationExcept(rq.raw)]]
    /\ UNCHANGED <<config, last_disease_query, chat_history, acceptedTop, acceptedFor, failedWith, accounts>>

\* Save that stores the answer as it was before the translation step
SaveUntranslated(r) ==
    /\ req[r].pc = "save"
    /\ \E ok \in BOOLEAN :
         /\ req' = [req EXCEPT ![r] = [@ EXCEPT !.pc = "respond", !.db = @ + 1]]
         /\ chat_history' =
                IF ok
                THEN Append(chat_history,
                            [username |-> req[r].user, message |-> req[r].query,
                             response |-> req[r].raw])
                ELSE chat_history
    /\ UNCHANGED <<config, last_disease_query, acceptedTop, acceptedFor, failedWith, accounts>>

\* server.py 780-795: the chat_history insert; a failure is rolled back
Save(r) ==
    /\ req[r].pc = "save"
    /\ \E ok \in BOOLEAN :
         /\ req' = [req EXCEPT ![r] = [@ EXCEPT !.pc = "respond", !.db = @ + 1]]
         /\ chat_history' =
                IF ok
                THEN Append(chat_history,
                            [username |-> req[r].user, message |-> req[r].query,
                             response |-> req[r].answer])
                ELSE chat_history
    /\ UNCHANGED <<config, last_disease_query, acceptedTop, acceptedFor, failedWith, accounts>>

\* server.py 797, shri1.py 379: jsonify({"answer": answer}), the whole result
Response(rq) == [answer |-> rq.answer]

\* Respond that also forgets the last passage
RespondForgets(r) ==
    /\ req[r].pc = "respond"
    /\ req' = [req EXCEPT ![r] = IdleReq]
    /\ last_disease_query' = [text |-> None, name |-> None]
    /\ UNCHANGED <<config, chat_history, acceptedTop, acceptedFor, failedWith, accounts>>

\* server.py 756, 761, 797, shri1.py 364, 379, 382: the JSON answer is sent
Respond(r) ==
    /\ req[r].pc = "respond"
    /\ req' = [req EXCEPT ![r] = IdleReq]
    /\ UNCHANGED <<config, last_disease_query, chat_history, acceptedTop, acceptedFor, failedWith, accounts>>

\* the request of slot r accepted a passage and its generation or its
\* translation failed afterwards
FailedAfterAccepting(rq) ==
    /\ rq.retrieval = "accepted"
    /\ rq.genOutcome \in GenFailures \/ rq.trOutcome = "failed"

\* Respond, with the note of what the answered request went through
RespondNoting(r) ==
    /\ req[r].pc = "respond"
    /\ req' = [req EXCEPT ![r] = IdleReq]
    /\ failedWith' = IF FailedAfterAccepting(req[r]) THEN req[r].para ELSE None
    /\ UNCHANGED <<config, last_disease_query, chat_history, acceptedTop, acceptedFor,
                   accounts>>

\* server.py 799-815: clear_history deletes the session user's rows
ClearHistoryFor(user) ==
    /\ variant = "server"
    /\ chat_history # <<>>
    /\ chat_history' = SelectSeq(chat_history, LAMBDA row : row.username # user)
    /\ UNCHANGED <<config, last_disease_query, req, acceptedTop, acceptedFor, failedWith, accounts>>

ClearHistory == \E user \in Users : ClearHistoryFor(user)

\* a request that starts when no other is in flight
ChatSequential(r) == InFlight = {} /\ ChatStart(r)

\* Requests served one after another
Next ==
    \/ \E r \in Slots : ChatSequential(r)
    \/ \E r \in Slots : Encode(r)
    \/ \E r \in Slots : Query(r)
    \/ \E r \in Slots : Scan(r)
    \/ \E r \in Slots : Generate(r)
    \/ \E r \in Slots : Translate(r)
    \/ \E r \in Slots : Save(r)
    \/ \E r \in Slots : Respond(r)
    \/ ClearHistory

Spec == Init /\ [][Next]_vars

\* the process with every optional service configured
InitConfigured == Init /\ model /\ index /\ translator /\ GEMINI_API_KEY

\* Requests served by concurrent threads (app.run serves each request in a
\* thread of its own), in an environment cut down to what two overlapping
\* retrievals need: every service configured, one question, the language
\* "en", index answers of at most one match

OverlapQuestions == { <<"A", "?">> }

OverlapResponses == { ms \in IndexResponses : Len(ms) <= 1 }

\* a request that starts while others may be in flight; chat_history then
\* holds at most MaxHistory - 1 + NSlots rows
ChatConcurrent(r) ==
    /\ variant = "server" => Len(chat_history) < MaxHistory
    /\ \E user \in SessionUsers, body \in OverlapQuestions :
         ChatRequest(r, user, body, "en")

QueryOverlap(r) == Query(r) /\ req'[r].matches \in OverlapResponses

NextConcurrent ==
    \/ \E r \in Slots : ChatConcurrent(r)
    \/ \E r \in Slots : Encode(r)
    \/ \E r \in Slots : QueryOverlap(r)
    \/ \E r \in Slots : Scan(r)
    \/ \E r \in Slots : Generate(r)
    \/ \E r \in Slots : Translate(r)
    \/ \E r \in Slots : Save(r)
    \/ \E r \in Slots : Respond(r)
    \/ ClearHistory

ConcurrentSpec == InitConfigured /\ [][NextConcurrent]_vars

\* Requests of two users served one after another: every service
\* configured, two questions, the language "en"

TwoUsers == {"alice", "bob"}

TwoUserQuestions == { <<"A", "?">>, <<" ", "a", " ", "b">> }

ChatTwoUsers(r) ==
    /\ InFlight = {}
    /\ variant = "server" => Len(chat_history) < MaxHistory
    /\ \E user \in (IF variant = "server" THEN TwoUsers ELSE {NoSession}),
          body \in TwoUserQuestions :
         ChatRequest(r, user, body, "en")

NextTwoUsers ==
    \/ \E r \in Slots : ChatTwoUsers(r)
    \/ \E r \in Slots : Encode(r)
    \/ \E r \in Slots : Query(r)
    \/ \E r \in Slots : Scan(r)
    \/ \E r \in Slots : Generate(r)
    \/ \E r \in Slots : Translate(r)
    \/ \E r \in Slots : Save(r)
    \/ \E r \in Slots : Respond(r)
    \/ \E user \in TwoUsers : ClearHistoryFor(user)

TwoUserSpec == InitConfigured /\ [][NextTwoUsers]_vars

\* Requests served one after another, every service configured, with the
\* note of the failures each answered request went through

NextNoting ==
    \/ \E r \in Slots : ChatSequential(r)
    \/ \E r \in Slots : Encode(r)
    \/ \E r \in Slots : Query(r)
    \/ \E r \in Slots : Scan(r)
    \/ \E r \in Slots : Generate(r)
    \/ \E r \in Slots : Translate(r)
    \/ \E r \in Slots : Save(r)
    \/ \E r \in Slots : RespondNoting(r)
    \/ ClearHistory

NotingSpec == InitConfigured /\ [][NextNoting]_vars

-----------------------------------------------------------------------------
(* register: one step per database statement *)

\* the forms sent to /register: username, email, password
RegisterForms ==
    { <<"alice", "a@x", "p">>, <<"alice", "b@x", "q">>,
      <<"bob", "a@x", "p">>, <<"", "a@x", "p">> }

\* the response to a register request whose database statement raised:
\* server.py 630-635 catches it, shri1.py lets it leave the handler
RegisterRaised ==
    IF variant = "server" THEN "page register: failed" ELSE "error 500"

\* server.py 610-617, shri1.py 308-312: the form is read, checked (server.py)
\* and the password hashed
RegisterStart(s) ==
    /\ reg[s].pc = "idle"
    /\ \E form \in RegisterForms :
         LET base == [IdleReg EXCEPT !.username = form[1], !.email = form[2],
                                     !.password = generate_password_hash(form[3])]
         IN  reg' = [reg EXCEPT ![s] =
                 IF variant = "server" /\ (form[1] = "" \/ form[2] = "" \/ form[3] = "")
                 THEN [base EXCEPT !.pc = "done", !.reply = "page register: fill all fields"]
                 ELSE [base EXCEPT !.pc = "select"]]
    /\ UNCHANGED <<pipeline, chat_history, users, session, reply, lastAuth>>

\* server.py 620-625, shri1.py 313-316: the SELECT for the username or email
RegisterSelect(s) ==
    /\ reg[s].pc = "select"
    /\ \E ok \in BOOLEAN :
         reg' = [reg EXCEPT ![s] =
             IF ~ok
             THEN [@ EXCEPT !.pc = "done", !.reply = RegisterRaised]
             ELSE IF UsersNamedOrMailed(reg[s].username, reg[s].email) # {}
             THEN [@ EXCEPT !.pc = "done", !.reply = "page register: already exists"]
             ELSE [@ EXCEPT !.pc = "insert"]]
    /\ UNCHANGED <<pipeline, chat_history, users, session, reply, lastAuth>>

\* InsertAllowed without the UNIQUE constraints
InsertAlways(username, email) == TRUE

\* server.py 126-127, shri1.py 389-390: username and email are UNIQUE, the
\* table refuses a row whose username or email it already holds
InsertAllowed(username, email) == UsersNamedOrMailed(username, email) = {}

\* server.py 626-629, shri1.py 317-320: the INSERT and its commit
RegisterInsert(s) ==
    /\ reg[s].pc = "insert"
    /\ \E ok \in BOOLEAN :
         IF ok /\ InsertAllowed(reg[s].username, reg[s].email)
         THEN /\ users' = Append(users, UserRow(reg[s].username, reg[s].email,
                                                reg[s].password))
              /\ reg' = [reg EXCEPT ![s] =
                     [@ EXCEPT !.pc = "done", !.reply = "redirect /login"]]
         ELSE /\ users' = users
              /\ reg' = [reg EXCEPT ![s] =
                     [@ EXCEPT !.pc = "done", !.reply = RegisterRaised,
                               !.duplicate = ok]]
    /\ UNCHANGED <<pipeline, chat_history, session, reply, lastAuth>>

\* the response of the register request is sent
RegisterRespond(s) ==
    /\ reg[s].pc = "done"
    /\ reg' = [reg EXCEPT ![s] = IdleReg]
    /\ UNCHANGED <<pipeline, chat_history, users, session, reply, lastAuth>>

\* Register requests served by concurrent threads
NextRegister ==
    \/ \E s \in Slots : RegisterStart(s)
    \/ \E s \in Slots : RegisterSelect(s)
    \/ \E s \in Slots : RegisterInsert(s)
    \/ \E s \in Slots : RegisterRespond(s)

RegisterSpec == InitConfigured /\ [][NextRegister]_vars

-----------------------------------------------------------------------------
(* login, logout and the routes behind the login, of server.py; each       *)
(* handler runs one database transaction and is one step                   *)

\* the forms sent to /login: username, password
LoginForms ==
    { <<"alice", "p">>, <<"alice", "q">>, <<"carol", "p">>, <<"", "p">> }

\* the forms sent to /change_password: current_password, new_password
ChangeForms == { <<"p", "q">>, <<"q", "p">>, <<"p", "">> }

\* a row chat inserted for username
StoredTurn(username) ==
    [username |-> username, message |-> <<"A", "?">>, response |-> <<"T">>]

\* what the database holds when the process starts: CREATE TABLE IF NOT
\* EXISTS keeps the rows of earlier runs
StoredUsers ==
    << UserRow("alice", "a@x", generate_password_hash("p")),
       UserRow("bob", "b@x", generate_password_hash("p")) >>

StoredHistory == << StoredTurn("alice"), StoredTurn("bob") >>

\* server.py with every optional service configured, on a database that
\* holds users and chat_history rows of earlier runs
InitStored ==
    /\ variant = "server"
    /\ model = TRUE /\ index = TRUE /\ translator = TRUE /\ GEMINI_API_KEY = TRUE
    /\ last_disease_query = [text |-> None, name |-> None]
    /\ req = [s \in Slots |-> IdleReq]
    /\ acceptedTop = {}
    /\ acceptedFor = NoSession
    /\ failedWith = None
    /\ AccountsAtStart
    /\ users = StoredUsers
    /\ chat_history = StoredHistory

\* Authenticates without the password
AuthenticatesAnyPassword(username, password) == UsersNamed(username) # {}

\* server.py 653-655, 708-710: user and check_password_hash(user["password"], password)
Authenticates(username, password) ==
    \E i \in UsersNamed(username) : check_password_hash(users[i].password, password)

\* server.py 641-666: login (POST)
Login(b) ==
    \E form \in LoginForms, ok \in BOOLEAN :
        LET username == form[1]
            password == form[2]
            in == username # "" /\ password # "" /\ ok /\ Authenticates(username, password)
            page == IF in THEN "redirect /dashboard" ELSE "page login"
        IN  /\ session' = IF in THEN [session EXCEPT ![b] = username] ELSE session
            /\ reply' = Exchange(b, "login", form, page)
            /\ lastAuth' = [lastAuth EXCEPT ![b] = Exchange(b, "login", form, page)]
            /\ UNCHANGED <<pipeline, chat_history, users, reg>>

\* server.py 668-671: logout
Logout(b) ==
    /\ session' = [session EXCEPT ![b] = NoSession]
    /\ reply' = Exchange(b, "logout", <<>>, "redirect /login")
    /\ lastAuth' = [lastAuth EXCEPT ![b] = Exchange(b, "logout", <<>>, "redirect /login")]
    /\ UNCHANGED <<pipeline, chat_history, users, reg>>

\* if "username" not in session: return redirect("/login")
LoginRequired(b) == session[b] = NoSession

\* a route that reads the database and writes nothing: the page it answers
\* with when the session holds a username
Reads(b, route, page) ==
    /\ reply' = Exchange(b, route, <<>>,
                          IF LoginRequired(b) THEN "redirect /login" ELSE page)
    /\ UNCHANGED <<pipeline, chat_history, users, session, reg, lastAuth>>

\* the chat_history rows of username
HistoryOf(username) == SelectSeq(chat_history, LAMBDA row : row.username = username)

\* server.py 673-693: dashboard
Dashboard(b) ==
    \E ok \in BOOLEAN :
        Reads(b, "dashboard",
              IF ok /\ UsersNamed(session[b]) # {} THEN "page dashboard"
              ELSE "redirect /login")

\* server.py 727-744: history
History(b) ==
    \E ok \in BOOLEAN :
        Reads(b, "history", IF ok THEN "page history" ELSE "redirect /dashboard")

\* server.py 746-750: chatpage
Chatpage(b) == Reads(b, "chatpage", "page chat")

\* server.py 820-849: download_history
DownloadHistory(b) ==
    \E ok \in BOOLEAN :
        Reads(b, "download_history", IF ok THEN "file csv" ELSE "redirect /history")

\* server.py 850-929: download_history_pdf, of all rows or of the rows of
\* one date (none of the user's rows, or all of them)
DownloadHistoryPdf(b) ==
    \E ok \in BOOLEAN, dated \in BOOLEAN :
        LET rows == IF dated THEN <<>> ELSE HistoryOf(session[b])
        IN  Reads(b, "download_history_pdf",
                  IF ok /\ rows # <<>> THEN "file pdf" ELSE "redirect /history")

\* BothGiven that lets empty fields pass
BothGivenUnchecked(current, new_pass) == TRUE

\* server.py 701: if not current or not new_pass
BothGiven(current, new_pass) == current # "" /\ new_pass # ""

\* server.py 695-725: change_password
ChangePassword(b) ==
    \E form \in ChangeForms, ok \in BOOLEAN :
        LET current  == form[1]
            new_pass == form[2]
            update   == /\ ~LoginRequired(b)
                        /\ BothGiven(current, new_pass)
                        /\ ok
                        /\ Authenticates(session[b], current)
            page     == IF LoginRequired(b) THEN "redirect /login" ELSE "redirect /dashboard"
        IN  /\ users' = IF update
                        THEN [i \in 1..Len(users) |->
                                 IF users[i].username = session[b]
                                 THEN [users[i] EXCEPT !.password =
                                                           generate_password_hash(new_pass)]
                                 ELSE users[i]]
                        ELSE users
            /\ reply' = Exchange(b, "change_password", form, page)
            /\ UNCHANGED <<pipeline, chat_history, session, reg, lastAuth>>

\* server.py 799-818: clear_history
ClearHistoryOf(b) ==
    \E ok \in BOOLEAN :
        /\ chat_history' =
               IF ~LoginRequired(b) /\ ok
               THEN SelectSeq(chat_history, LAMBDA row : row.username # session[b])
               ELSE chat_history
        /\ reply' = Exchange(b, "clear_history", <<>>,
                              IF LoginRequired(b) THEN "redirect /login"
                              ELSE "redirect /history")
        /\ UNCHANGED <<pipeline, users, session, reg, lastAuth>>

\* The account routes of server.py, one request after another
NextAccount ==
    \/ \E b \in Browsers : Login(b)
    \/ \E b \in Browsers : Logout(b)
    \/ \E b \in Browsers : Dashboard(b)
    \/ \E b \in Browsers : ChangePassword(b)
    \/ \E b \in Browsers : History(b)
    \/ \E b \in Browsers : Chatpage(b)
    \/ \E b \in Browsers : ClearHistoryOf(b)
    \/ \E b \in Browsers : DownloadHistory(b)
    \/ \E b \in Browsers : DownloadHistoryPdf(b)

AccountSpec == InitStored /\ [][NextAccount]_vars

\* the steps that serve a started request
Serve(r) ==
    \/ Encode(r) \/ Query(r) \/ Scan(r)
    \/ Generate(r) \/ Translate(r) \/ Save(r)

\* A request that was started is run to its answer: the thread that serves
\* it keeps running, and every remote call returns or raises
Fairness == WF_vars(\E r \in Slots : Serve(r))

FairSpec == Init /\ [][Next]_vars /\ Fairness

\* the same, from the process with every optional service configured
FairConfiguredSpec == InitConfigured /\ [][Next]_vars /\ Fairness

-----------------------------------------------------------------------------
(* Vocabulary of the claims *)

\* the request of slot r reached the pipeline (server.py answers a request
\* without session before it)
InPipeline(rq) == rq.pc # "idle" /\ (variant = "server" => rq.user # NoSession)

\* search_query_only ran its loop for the request of slot r
Scanned(rq) == rq.matches # <<>> /\ rq.pc # "scan"

\* the final answer is what the translation step makes of raw
AnswerFromRaw(rq) ==
    rq.answer \in {rq.raw, Translated(rq.raw, rq.lang), rq.raw \o TranslationFailed}

\* match i of the request's index response passes the tests of the spec on
\* its trimmed text, against the previous text prev
Qualifies(rq, i, prev) ==
    LET m == rq.matches[i]
    IN  /\ m.hasMeta
        /\ Strip(m.text) # <<>>
        /\ Strip(m.text) # prev
        /\ MatchScore(m) >= threshold
        /\ \E w \in { Keywords(rq.query)[k] : k \in 1..Len(Keywords(rq.query)) } :
               Contains(Lower(Strip(m.text)), w)

\* the matches from position from on that qualify
QualifyingFrom(rq, from, prev) ==
    { i \in from..Len(rq.matches) : Qualifies(rq, i, prev) }

First(S) == CHOOSE i \in S : \A j \in S : i <= j

\* shri1.py meets a match without metadata before match i (before the end
\* of the list when i is Len + 1) and raises
RaisesBefore(rq, i) ==
    variant = "shri1" /\ \E j \in 1..(i - 1) : ~rq.matches[j].hasMeta

-----------------------------------------------------------------------------
(* C1: for every question that is empty or whitespace only, chat returns    *)
(* the validation message, calls neither the encoder, the index, the       *)
(* generation service nor the translation service, and leaves              *)
(* last_disease_query unchanged.  shri1.py does not trim the question.     *)
C1_BlankQuestionRejected ==
    [][\A r \in Slots :
         (InPipeline(req[r])' /\ Strip(req'[r].body) = <<>>)
            => /\ req'[r].pc = "respond"
               /\ req'[r].answer = ValidationMsg
               /\ req'[r].enc = 0 /\ req'[r].idx = 0
               /\ req'[r].gen = 0 /\ req'[r].tr = 0
               /\ last_disease_query' = last_disease_query]_vars

(* C2: every request with a non-empty question ends with an answer string, *)
(* whatever the encoder, the index, the generation service and the         *)
(* translation service do; no failure leaves chat.                         *)
C2_EveryRequestAnswered ==
    \A r \in Slots :
        (req[r].pc \in {"encode", "query", "scan", "generate", "translate", "save"})
            ~> (req[r].pc = "respond" /\ req[r].answer # None)

C2_Witness ==
    \E r \in Slots :
        /\ req[r].pc = "respond"
        /\ req[r].retrieval = "failed"
        /\ req[r].genOutcome \in GenFailures
        /\ req[r].trOutcome = "failed"
        /\ req[r].answer # None

(* C3: a failure of the encoder or of the index counts as no passage:      *)
(* retrieval yields None, the generator gets the no-passage prompt, and    *)
(* the answer is the generator's output or fallback, no error message.     *)
(* In shri1.py the failure ends the request with the internal-error        *)
(* answer.                                                                 *)
C3_RetrievalFailureIsNoPassage ==
    \A r \in Slots :
        (req[r].retrieval = "failed" /\ req[r].pc = "respond")
            => /\ req[r].para = None
               /\ req[r].prompt = NoPassageInstr \o req[r].query
               /\ req[r].raw \in GenTexts \cup {SafeAnswer(None, req[r].query)}
               /\ AnswerFromRaw(req[r])

(* C4 as stated: if the index returns a match with score >= 0.75 whose    *)
(* text contains a keyword of the question and differs from the last      *)
(* text, retrieve returns that exact text and last_disease_query holds    *)
(* that text and the question after the call (read of the calls that      *)
(* return).                                                               *)
C4_AnyQualifyingMatchReturnedExactly ==
    \A r \in Slots :
        (Scanned(req[r]) /\ req[r].retrieval # "failed") =>
            \A i \in 1..Len(req[r].matches) :
                LET m == req[r].matches[i]
                IN  ( /\ m.hasMeta
                      /\ MatchScore(m) >= threshold
                      /\ AnyKeyword(m.text, Keywords(req[r].query))
                      /\ m.text # req[r].textAtStart )
                    => /\ req[r].para = m.text
                       /\ last_disease_query = [text |-> m.text, name |-> req[r].query]

(* C4 amended: if the index returns a match with score >= 0.75 whose      *)
(* trimmed text is non-empty, contains a keyword of the question and      *)
(* differs from the last text, retrieve returns the trimmed text of the   *)
(* first such match, and last_disease_query holds that trimmed text and   *)
(* the question after the call; shri1.py raises instead when a match      *)
(* without metadata comes before that match.                              *)
C4_FirstQualifyingMatchReturnedTrimmed ==
    \A r \in Slots :
        LET Q == QualifyingFrom(req[r], 1, req[r].textAtStart)
        IN  (Scanned(req[r]) /\ Q # {}) =>
                IF RaisesBefore(req[r], First(Q))
                THEN /\ req[r].retrieval = "failed"
                     /\ req[r].answer = InternalErrorMsg
                ELSE /\ req[r].retrieval = "accepted"
                     /\ req[r].para = Strip(req[r].matches[First(Q)].text)
                     /\ last_disease_query =
                            [text |-> req[r].para, name |-> req[r].query]

\* a padded text that was not the first match of the list was accepted, trimmed
C4_Witness ==
    \E r \in Slots :
        /\ Scanned(req[r])
        /\ req[r].retrieval = "accepted"
        /\ Len(req[r].matches) = 2
        /\ req[r].matches[2].text = <<" ", "A">>
        /\ req[r].para = <<"A">>
        /\ last_disease_query.text = <<"A">>

(* C5: with the calls run one after another, a call never returns a       *)
(* passage equal to the text last_disease_query held when the call        *)
(* started, even when that text is the top match.                         *)
C5_NeverReturnsPreviousText ==
    \A r \in Slots :
        req[r].retrieval = "accepted" => req[r].para # req[r].textAtStart

\* the top match was the previous text, and another passage was returned
C5_Witness ==
    \E r \in Slots :
        /\ Scanned(req[r])
        /\ req[r].retrieval = "accepted"
        /\ req[r].textAtStart # None
        /\ req[r].matches[1].hasMeta
        /\ Strip(req[r].matches[1].text) = req[r].textAtStart

\* the call before this one accepted the match that is the top match now
SameTopAccepted(rq) == Scanned(rq) /\ rq.prevTop = {rq.matches[1]}

\* the later matches that qualify by score, keyword and non-emptiness alone
LaterQualifying(rq) == QualifyingFrom(rq, 2, None)

C7_FallbackNamesQuestion ==
    \A r \in Slots :
        req[r].genOutcome \in GenFailures =>
            /\ req[r].raw # None
            /\ Contains(req[r].raw, YouAsked \o req[r].query)

(* C8: with the language "en", or without a translation backend, the      *)
(* translation step returns its input unchanged and does not call the     *)
(* translation service.                                                   *)
C8_NoTranslationIsIdentity ==
    \A r \in Slots :
        (req[r].trOutcome # "none" /\ (req[r].lang = "en" \/ ~translator))
            => /\ req[r].answer = req[r].raw
               /\ req[r].tr = 0

\* a translation was asked for and the backend is missing
C8_Witness ==
    \E r \in Slots :
        /\ req[r].pc = "respond"
        /\ req[r].trOutcome = "skipped"
        /\ req[r].lang = "hi"
        /\ ~translator
        /\ req[r].answer = req[r].raw
        /\ req[r].raw # None

(* C9: when the generation service answers T and the language is "en",    *)
(* the answer returned is exactly T, with or without a passage.           *)
C9_GeneratedTextReturnedAsIs ==
    \A r \in Slots :
        (req[r].pc = "respond" /\ req[r].genOutcome = "ok" /\ req[r].lang = "en")
            => req[r].answer = req[r].genText

\* T was generated from a passage and returned
C9_Witness ==
    \E r \in Slots :
        /\ req[r].pc = "respond"
        /\ req[r].genOutcome = "ok"
        /\ req[r].lang = "en"
        /\ req[r].para # None
        /\ req[r].answer = <<"T">>

(* C10: when the language is not "en", the backend is there and the       *)
(* translation call fails, the answer is the untranslated text followed   *)
(* by a translation-failure warning, and nothing is raised.               *)
C10_FailedTranslationKeepsText ==
    \A r \in Slots :
        req[r].trOutcome = "failed" =>
            /\ req[r].lang # "en" /\ translator
            /\ req[r].pc \in {"save", "respond"}
            /\ Len(req[r].answer) = Len(req[r].raw) + 1
            /\ SubSeq(req[r].answer, 1, Len(req[r].raw)) = req[r].raw
            /\ <<req[r].answer[Len(req[r].answer)]>>
                   \in {TranslationFailedServer, TranslationFailedShri}

\* the fallback answer could not be translated
C10_Witness ==
    \E r \in Slots :
        /\ req[r].pc = "respond"
        /\ req[r].trOutcome = "failed"
        /\ req[r].genOutcome = "timeout"
        /\ req[r].lang = "hi"

\* the request of slot r went through generate
Generated(rq) == rq.genOutcome # "none"

\* the steps of one request ran in the order retrieve, generate, translate,
\* each at most once, each on the output of the step before
StepsInOrder(rq) ==
    /\ rq.enc <= 1 /\ rq.idx <= 1 /\ rq.gen <= 1 /\ rq.tr <= 1
    /\ Generated(rq) => rq.retrieval # "none"
    /\ rq.trOutcome # "none" => Generated(rq)
    /\ rq.idx > 0 => rq.enc > 0
    /\ rq.retrieval = "none" => rq.gen = 0 /\ rq.tr = 0
    /\ ~Generated(rq) => rq.gen = 0 /\ rq.tr = 0
    /\ Generated(rq) => rq.prompt = Prompt(rq.para, rq.query)
    /\ rq.trOutcome # "none" => AnswerFromRaw(rq)

(* C11: within one request the steps run in the order retrieve, generate,  *)
(* translate, each at most once; generate receives the passage retrieve    *)
(* returned, translate receives generate's output, and the result carries  *)
(* usedPassage, true exactly when retrieve returned a passage.  The result *)
(* of chat carries the answer alone.                                       *)
C11_PipelineOrderAndUsedPassage ==
    \A r \in Slots :
        /\ StepsInOrder(req[r])
        /\ (req[r].pc = "respond" /\ Generated(req[r]))
              => /\ "usedPassage" \in DOMAIN Response(req[r])
                 /\ Response(req[r]).usedPassage = (req[r].para # None)

(* C12: with two or more chat requests running concurrently, no request    *)
(* accepts and returns a passage whose text equals the value               *)
(* last_disease_query["text"] has at the moment of that acceptance: the    *)
(* read of the text and its update are serialized.  The code takes no      *)
(* lock between the read and the update.                                   *)
C12_AcceptanceSerialized ==
    [][\A r \in Slots :
         (req[r].pc = "scan" /\ req'[r].retrieval = "accepted")
            => req'[r].para # last_disease_query.text]_vars

\* match m has a score of at least 0.75 and a non-empty text that contains,
\* in lower case, a keyword of the question
ScoreAndKeyword(m, question) ==
    /\ m.hasMeta /\ m.text # <<>>
    /\ m.hasScore /\ m.score >= threshold
    /\ \E k \in 1..Len(Keywords(question)) :
           Contains(Lower(m.text), Keywords(question)[k])

(* C13: every passage search_query_only returns comes from a match of the  *)
(* current query whose score is >= 0.75 and whose text is non-empty and    *)
(* contains, case-insensitively, a keyword of the question; a match below  *)
(* 0.75 or without any keyword is never returned.                          *)
C13_ReturnedPassageQualifies ==
    \A r \in Slots :
        (Scanned(req[r]) /\ req[r].retrieval = "accepted") =>
            \E i \in 1..Len(req[r].matches) :
                /\ ScoreAndKeyword(req[r].matches[i], req[r].query)
                /\ req[r].para = Strip(req[r].matches[i].text)

\* a better-scored match without any keyword was passed over
C13_Witness ==
    \E r \in Slots :
        /\ Scanned(req[r])
        /\ req[r].retrieval = "accepted"
        /\ req[r].matches[1] = Match(90, <<"x">>)
        /\ req[r].para = <<"b">>

(* C14: search_query_only returns the first candidate, in the order of the *)
(* index response, that is non-empty, differs from the last text and       *)
(* passes the score and keyword tests: no earlier qualifying candidate is  *)
(* passed over and no later one is chosen over it.  shri1.py raises when   *)
(* a match without metadata comes first.                                   *)
C14_FirstQualifyingReturned ==
    \A r \in Slots :
        Scanned(req[r]) =>
            LET Q == QualifyingFrom(req[r], 1, req[r].textAtStart)
            IN  /\ req[r].retrieval = "accepted" <=> Q # {}
                /\ Q # {} => req[r].para = Strip(req[r].matches[First(Q)].text)

(* C15: last_disease_query changes only when search_query_only accepts a   *)
(* candidate, and then to that candidate and the question: a call that     *)
(* returns None (encoder or index missing or failing, no match, no         *)
(* qualifying candidate), the generation step, the translation step and    *)
(* the rejection of an empty question leave it unchanged.                  *)
C15_OnlyAcceptanceChangesState ==
    [][last_disease_query' # last_disease_query =>
         \E r \in Slots :
            /\ req[r].pc = "scan"
            /\ req'[r].retrieval = "accepted"
            /\ last_disease_query' = [text |-> req'[r].para, name |-> req[r].query]]_vars

\* a request that found no qualifying candidate was answered, and the
\* passage of an earlier request is still the last text
C15_Witness ==
    \E r \in Slots :
        /\ req[r].pc = "respond"
        /\ req[r].retrieval = "nothing"
        /\ req[r].trOutcome # "none"
        /\ last_disease_query = [text |-> <<"A">>, name |-> <<"A", "?">>]
        /\ req[r].query # <<"A", "?">>

\* the two templates of the spec
WithPassageForm(prompt, passage, question) ==
    prompt = passage \o WithPassageInstr \o question

NoPassageForm(prompt, question) == prompt = NoPassageInstr \o question

(* C16: query_gemini builds one prompt per call: the with-passage template *)
(* (passage, the "Using the above text" instruction, the question) if and  *)
(* only if chat supplied a passage, the no-passage template ("Answer this  *)
(* medical question in simple terms ..." and the question) otherwise; the  *)
(* question is part of the prompt in both cases.                           *)
C16_OnePromptTemplate ==
    \A r \in Slots :
        Generated(req[r]) =>
            LET rq == req[r]
            IN  /\ rq.para # None <=> WithPassageForm(rq.prompt, rq.para, rq.query)
                /\ rq.para = None <=> NoPassageForm(rq.prompt, rq.query)
                /\ Contains(rq.prompt, rq.query)

\* a prompt was built around the passage "A"
C16_Witness ==
    \E r \in Slots :
        /\ Generated(req[r])
        /\ req[r].para = <<"A">>
        /\ req[r].prompt = <<"A">> \o WithPassageInstr \o <<"A", "?">>

(* C17: a call of query_gemini sends at most one request to the generation *)
(* service: after a failed attempt there is no second attempt, and one     *)
(* chat request causes at most one generation request in all.              *)
C17_OneGenerationAttempt ==
    \A r \in Slots :
        /\ req[r].gen <= 1
        /\ req[r].genOutcome \in GenFailures
              => /\ req[r].gen = 1
                 /\ req[r].pc \in {"translate", "save", "respond"}
        /\ req[r].genOutcome \in {"none", "nokey"} => req[r].gen = 0

\* a request whose generation call timed out was answered
C17_Witness ==
    \E r \in Slots :
        /\ req[r].pc = "respond"
        /\ req[r].genOutcome = "timeout"
        /\ req[r].gen = 1
        /\ req[r].raw = Fallback(req[r].para, req[r].query)

(* C18: the fallback answer is a function of the question and of whether   *)
(* a passage was supplied: the fixed disclaimer, then "You asked: " and    *)
(* the question, then the trailing note if and only if a passage was       *)
(* supplied; it depends neither on the kind of failure nor on the text of  *)
(* the passage.  The fallback of shri1.py is another, fixed, message.      *)
C18_FallbackDeterministic ==
    \A r \in Slots :
        req[r].genOutcome \in GenFailures \cup {"nokey"} =>
            req[r].raw =
                SafeDisclaimer \o YouAsked \o req[r].query
                    \o (IF req[r].para # None THEN ReferencedNote ELSE <<>>)

\* the passages the index can hold
Passages == { Strip(m.text) : m \in { x \in Matches : x.hasMeta } } \ { <<>> }

\* a call of search_query_only has just accepted passage P
Accepts(P) ==
    \E r \in Slots :
        req[r].pc = "generate" /\ req[r].retrieval = "accepted" /\ req[r].para = P

\* the call of slot r started with the last text Q, and P is its first
\* candidate that qualifies by score, keyword and non-emptiness
FirstOtherwiseQualifying(rq, P, Q) ==
    /\ Scanned(rq)
    /\ rq.textAtStart = Q
    /\ QualifyingFrom(rq, 1, None) # {}
    /\ Strip(rq.matches[First(QualifyingFrom(rq, 1, None))].text) = P

(* C19: repeat suppression remembers the single most recently accepted     *)
(* passage: after a call accepted P and a later call accepted another      *)
(* passage Q, a following call for which P is the first otherwise          *)
(* qualifying candidate returns P again.  shri1.py raises when a match     *)
(* without metadata comes before P.                                        *)
C19_OlderPassageReturnedAgain ==
    \A P \in Passages : \A Q \in Passages \ {P} :
        [](Accepts(P) =>
             [](\A r \in Slots :
                  FirstOtherwiseQualifying(req[r], P, Q)
                      => req[r].retrieval = "accepted" /\ req[r].para = P))

(* C20: repeat suppression belongs to the process, not to a user or a      *)
(* session: a passage accepted while serving one user's request is         *)
(* skipped by the following call of search_query_only made for another     *)
(* user's request (by every later call, as long as that passage is the     *)
(* last text).                                                             *)
C20_SuppressionAcrossUsers ==
    \A r \in Slots :
        ( /\ Scanned(req[r])
          /\ req[r].user \in TwoUsers
          /\ req[r].forAtStart \in TwoUsers \ {req[r].user}
          /\ req[r].textAtStart # None )
            => /\ req[r].previous_text = req[r].textAtStart
               /\ req[r].para # req[r].textAtStart
               /\ \A i \in 1..Len(req[r].matches) :
                      LET m == req[r].matches[i]
                      IN  (m.hasMeta /\ Strip(m.text) = req[r].textAtStart
                             /\ req[r].retrieval = "accepted")
                             => \E j \in 1..Len(req[r].matches) :
                                   /\ j # i
                                   /\ Qualifies(req[r], j, req[r].textAtStart)
                                   /\ req[r].para = Strip(req[r].matches[j].text)

\* the passage accepted for alice is the top match of bob's request, which
\* skips it and returns the next candidate
C20_Witness ==
    \E r \in Slots :
        /\ Scanned(req[r])
        /\ req[r].user = "bob"
        /\ req[r].forAtStart = "alice"
        /\ req[r].textAtStart = <<"A">>
        /\ req[r].matches[1] = Match(90, <<"A">>)
        /\ req[r].retrieval = "accepted"
        /\ req[r].para = <<"b">>

\* every match of the list carries metadata
AllMetadata(ms) == \A i \in 1..Len(ms) : ms[i].hasMeta

\* what the loop of the other variant returns on the inputs of rq's call
OtherScanResult(rq) ==
    IF variant = "server"
    THEN ScanShri(rq.matches, 1, Keywords(rq.query), rq.previous_text)
    ELSE ScanServer(rq.matches, 1, Keywords(rq.query), rq.previous_text)

\* last_disease_query after a call that returned res for question
StateAfter(res, question, before) ==
    IF res = None THEN before ELSE [text |-> res, name |-> question]

(* C21: the search_query_only of server.py and that of shri1.py differ     *)
(* only in error handling: on every question, last_disease_query and       *)
(* index response whose matches all carry metadata (the encoder and the    *)
(* index having answered), the call of the running variant returns what    *)
(* the loop of the other variant returns on the same inputs, and leaves    *)
(* last_disease_query as that loop's result would leave it.                *)
C21_VariantsRetrieveAlike ==
    [][\A r \in Slots :
         (req[r].pc = "scan" /\ req'[r].pc # "scan" /\ AllMetadata(req[r].matches))
            => /\ req'[r].retrieval \in {"accepted", "nothing"}
               /\ req'[r].para = OtherScanResult(req[r])
               /\ last_disease_query' =
                      StateAfter(OtherScanResult(req[r]), req[r].query,
                                 last_disease_query)]_vars

\* shri1.py skipped the last text and returned the next candidate
C21_Witness ==
    \E r \in Slots :
        /\ variant = "shri1"
        /\ Scanned(req[r])
        /\ AllMetadata(req[r].matches)
        /\ req[r].textAtStart = <<"A">>
        /\ req[r].matches[1] = Match(90, <<" ", "A">>)
        /\ req[r].retrieval = "accepted"
        /\ req[r].para = <<"b">>

\* the fallback answer of the spec for the request rq
DisclaimerAnswer(rq) ==
    SafeDisclaimer \o YouAsked \o rq.query
        \o (IF rq.para # None THEN ReferencedNote ELSE <<>>)

(* C22: in server.py without a generation API key, query_gemini sends no   *)
(* request to the generation service and returns the answer it returns     *)
(* after a failed call: the disclaimer, "You asked: " and the question,     *)
(* and the trailing note when a passage was supplied.                      *)
C22_NoKeyNoCallSameFallback ==
    \A r \in Slots :
        (variant = "server" /\ Generated(req[r])) =>
            /\ ~GEMINI_API_KEY
                  => /\ req[r].genOutcome = "nokey"
                     /\ req[r].gen = 0
                     /\ req[r].raw = DisclaimerAnswer(req[r])
            /\ req[r].genOutcome \in GenFailures
                  => /\ GEMINI_API_KEY
                     /\ req[r].gen = 1
                     /\ req[r].raw = DisclaimerAnswer(req[r])

\* a request with a passage was answered without a key
C22_Witness ==
    \E r \in Slots :
        /\ variant = "server" /\ ~GEMINI_API_KEY
        /\ req[r].pc = "respond"
        /\ req[r].genOutcome = "nokey"
        /\ req[r].para = <<"A">>
        /\ req[r].gen = 0
        /\ req[r].answer # None

(* C23: last_disease_query is updated when the passage is accepted, and    *)
(* nothing later in the request undoes it: until the request is answered   *)
(* it holds the accepted passage, whether the generation and the           *)
(* translation succeed or fail; and when they failed, the following call   *)
(* of search_query_only compares with that passage and does not return it. *)
C23_FailureKeepsSuppression ==
    \A r \in Slots :
        /\ (req[r].retrieval = "accepted" /\ req[r].pc \in {"generate", "translate", "save", "respond"})
              => last_disease_query = [text |-> req[r].para, name |-> req[r].query]
        /\ (req[r].failedAtStart # None /\ req[r].retrieval # "none")
              => req[r].textAtStart = req[r].failedAtStart
        /\ (req[r].failedAtStart # None /\ Scanned(req[r]))
              => /\ req[r].previous_text = req[r].failedAtStart
                 /\ req[r].para # req[r].failedAtStart

\* the request before accepted "A" and failed afterwards; "A" is the top
\* match again and the next candidate is returned
C23_Witness ==
    \E r \in Slots :
        /\ Scanned(req[r])
        /\ req[r].failedAtStart = <<"A">>
        /\ req[r].matches[1] = Match(90, <<"A">>)
        /\ req[r].retrieval = "accepted"
        /\ req[r].para = <<"b">>

\* the question of rq is not blank and has no keyword
NoKeyword(rq) ==
    /\ InPipeline(rq)
    /\ Strip(rq.body) # <<>>
    /\ Keywords(rq.query) = <<>>

WithoutSession(rq) == variant = "server" /\ rq.pc # "idle" /\ rq.user = NoSession

(* C25: in server.py a chat request without a logged-in session gets the   *)
(* login-required answer and nothing else happens: no call of the encoder, *)
(* the index, the generation service or the translator, no change of       *)
(* last_disease_query, no chat_history row.                                *)
C25_NoSessionNoEffect ==
    [][\A r \in Slots :
         /\ WithoutSession(req[r])'
               => /\ req'[r].pc = "respond"
                  /\ req'[r].answer = LoginMsg
                  /\ req'[r].enc = 0 /\ req'[r].idx = 0
                  /\ req'[r].gen = 0 /\ req'[r].tr = 0 /\ req'[r].db = 0
         /\ ((WithoutSession(req[r]) \/ WithoutSession(req[r])') /\ req'[r] # req[r])
               => /\ last_disease_query' = last_disease_query
                  /\ chat_history' = chat_history]_vars

\* a well-formed question sent without a session, after a passage was
\* accepted for an earlier request
C25_Witness ==
    \E r \in Slots :
        /\ WithoutSession(req[r])
        /\ req[r].pc = "respond"
        /\ req[r].body = <<"A", "?">>
        /\ req[r].answer = LoginMsg
        /\ last_disease_query.text = <<"A">>

\* the request of slot r was made to server.py by a logged-in user with a
\* question that is not empty once trimmed
LoggedInQuestion(rq) ==
    variant = "server" /\ rq.pc # "idle" /\ rq.user # NoSession /\ Strip(rq.body) # <<>>

\* the row of the spec for the request rq
ChatTurn(rq) ==
    [username |-> rq.user, message |-> Strip(rq.body), response |-> Response(rq).answer]

(* C26: in server.py every chat request of a logged-in user with a         *)
(* question that is not empty (once trimmed) attempts exactly one          *)
(* chat_history insert, after the final answer is computed; the row        *)
(* carries the session's username, the trimmed question and the answer     *)
(* returned to the caller; when the insert fails the same answer is        *)
(* returned and chat_history is as before.                                 *)
C26_OneInsertOfTheAnswer ==
    [][\A r \in Slots :
         LoggedInQuestion(req[r])' =>
            /\ req'[r].db = IF req'[r].pc = "respond" THEN 1 ELSE 0
            /\ req'[r].pc \in {"save", "respond"}
                  => req'[r].trOutcome # "none" /\ req'[r].answer # None
            /\ (req[r].pc = "save" /\ req'[r] # req[r])
                  => /\ req'[r].pc = "respond"
                     /\ Response(req[r]')  = Response(req[r])
                     /\ \/ chat_history' = chat_history
                        \/ chat_history' = Append(chat_history, ChatTurn(req'[r]))]_vars

\* the row of a padded question whose answer was translated
C26_Witness ==
    \E r \in Slots :
        /\ LoggedInQuestion(req[r])
        /\ req[r].pc = "respond"
        /\ req[r].body = <<" ", "a", " ", "b">>
        /\ req[r].trOutcome = "ok"
        /\ chat_history = << [username |-> "alice", message |-> <<"a", " ", "b">>,
                              response |-> req[r].answer] >>

\* the routes behind the login
ProtectedRoutes ==
    { "dashboard", "change_password", "history", "chatpage", "clear_history",
      "download_history", "download_history_pdf" }

\* the exchange x is a login whose username is in the table, with a password
\* that matches the hash stored for it
LoginMatches(x, table) ==
    /\ x.route = "login"
    /\ \E i \in 1..Len(table) :
          /\ table[i].username = x.form[1]
          /\ table[i].password = generate_password_hash(x.form[2])

\* the step is a request of browser b to a protected route without a
\* username in its session: it is redirected to /login and stores nothing
RedirectedToLogin(b) ==
    (reply'.to = b /\ reply'.route \in ProtectedRoutes /\ session[b] = NoSession)
        => /\ reply'.page = "redirect /login"
           /\ users' = users
           /\ chat_history' = chat_history
           /\ session' = session

(* C27 as stated: a session holds a username only if its most recent login *)
(* or logout event was a login whose username exists and whose password    *)
(* matches the stored hash; every protected route redirects to /login and  *)
(* changes no stored data when the session holds no username.              *)
C27_LatestEventIsMatchingLogin ==
    [][\A b \in Browsers :
         /\ session'[b] # NoSession
               => /\ LoginMatches(lastAuth'[b], users')
                  /\ session'[b] = lastAuth'[b].form[1]
         /\ RedirectedToLogin(b)]_vars

(* C27 amended: the username of a session changes only by a login request  *)
(* of that session whose username exists and whose password matches the    *)
(* stored hash (the session then holds that username) and by a logout      *)
(* (the session then holds none); a refused login leaves the session as it *)
(* was.  Every protected route redirects to /login and changes no stored   *)
(* data when the session holds no username.                                *)
C27_SessionFollowsMatchingLogin ==
    [][\A b \in Browsers :
         /\ session'[b] # session[b]
               => /\ reply'.to = b
                  /\ IF session'[b] = NoSession
                     THEN reply'.route = "logout"
                     ELSE LoginMatches(reply', users) /\ session'[b] = reply'.form[1]
         /\ (reply'.to = b /\ reply'.route = "logout") => session'[b] = NoSession
         /\ (reply'.to = b /\ reply'.route = "login" /\ ~LoginMatches(reply', users))
               => session'[b] = session[b]
         /\ RedirectedToLogin(b)]_vars

\* one browser is logged in although its latest login was refused, and the
\* other, not logged in, asked to clear the history
C27_Witness ==
    /\ session["b1"] = "alice"
    /\ lastAuth["b1"] = Exchange("b1", "login", <<"alice", "q">>, "page login")
    /\ session["b2"] = NoSession
    /\ reply = Exchange("b2", "clear_history", <<>>, "redirect /login")
    /\ chat_history = StoredHistory

(* C28: change_password replaces the stored password of the session's user *)
(* only when both fields are non-empty and the current password verifies   *)
(* against the stored hash; in every other case (wrong current password,   *)
(* missing field, database error, no session) the stored password is       *)
(* unchanged, and the password of no other user is ever modified.          *)
C28_PasswordChangedOnlyWhenVerified ==
    [][/\ Len(users') = Len(users)
       /\ \A i \in 1..Len(users) :
             /\ users'[i].username = users[i].username
             /\ users'[i].email = users[i].email
             /\ users'[i].password # users[i].password
                   => /\ reply'.route = "change_password"
                      /\ session[reply'.to] = users[i].username
                      /\ reply'.form[1] # "" /\ reply'.form[2] # ""
                      /\ users[i].password = generate_password_hash(reply'.form[1])
                      /\ users'[i].password = generate_password_hash(reply'.form[2])]_vars

\* alice changed her password, bob's row is as it was; then a request with
\* the old password as the current one changed nothing
C28_Witness ==
    /\ users[1] = UserRow("alice", "a@x", generate_password_hash("q"))
    /\ users[2] = UserRow("bob", "b@x", generate_password_hash("p"))
    /\ reply = Exchange("b1", "change_password", <<"p", "q">>, "redirect /dashboard")
    /\ session["b1"] = "alice"

\* the rows of the table that hold the username, or the email, of the
\* register request rq
RowsOf(table, rq) ==
    { i \in 1..Len(table) :
        table[i].username = rq.username \/ table[i].email = rq.email }

(* C29: after any sequence of register requests, concurrent ones for the   *)
(* same username or email included, the users table holds at most one row  *)
(* per username and at most one row per email; a register request for a    *)
(* username or email the table already holds adds no row and leaves the    *)
(* rows there unchanged.                                                   *)
C29_OneRowPerUsernameAndEmail ==
    [][/\ \A i, j \in 1..Len(users') :
             (users'[i].username = users'[j].username \/ users'[i].email = users'[j].email)
                => i = j
       /\ \A s \in Slots :
             (reg'[s] # reg[s] /\ RowsOf(users, reg[s]) # {} /\ reg[s].pc # "idle")
                => users' = users
       /\ \A i \in 1..Len(users) : Len(users') >= i /\ users'[i] = users[i]]_vars

\* a request for a username that was free when it was looked up, refused
\* by the table because a concurrent request had taken it
C29_Witness ==
    \E s, t \in Slots :
        /\ s # t
        /\ reg[s].pc = "done"
        /\ reg[s].reply = RegisterRaised
        /\ reg[s].duplicate
        /\ reg[s].username = "alice" /\ reg[s].email = "b@x"
        /\ reg[t].pc = "done"
        /\ reg[t].reply = "redirect /login"
        /\ users = << UserRow("alice", "a@x", generate_password_hash("p")) >>

\* the two fields of state are set together, and the text is a non-empty
\* trimmed one
SetTogether(state) ==
    /\ state.text = None <=> state.name = None
    /\ state.text # None
          => /\ state.text # <<>>
             /\ Strip(state.text) = state.text

(* C30: in every reachable state the two fields of last_disease_query are  *)
(* set together: text and name are both None or both set, and a text that  *)
(* is set is non-empty, trimmed of whitespace, and was returned as the     *)
(* passage of a call of search_query_only.                                 *)
C30_StateSetTogether ==
    [][/\ SetTogether(last_disease_query)
       /\ SetTogether(last_disease_query')
       /\ last_disease_query'.text # last_disease_query.text
             => \E r \in Slots :
                   /\ req[r].pc = "scan"
                   /\ req'[r].pc = "generate"
                   /\ req'[r].para = last_disease_query'.text
                   /\ last_disease_query'.name = req[r].query]_vars

\* the match text with a leading blank was accepted: its trimmed text is
\* the last text, with the question that found it
C30_Witness ==
    /\ last_disease_query = [text |-> <<"A">>, name |-> <<"A", "?">>]
    /\ \E r \in Slots :
          /\ req[r].pc = "generate"
          /\ req[r].retrieval = "accepted"
          /\ req[r].matches[1].text = <<" ", "A">>
          /\ req[r].para = <<"A">>

====
